---------------------------- MODULE Spec2Model ----------------------------
(***************************************************************************)
(* A model of the air traffic tracker: the state source with its snapshot  *)
(* fallback (flight_core.py and src/app.py), candidate selection, lookup   *)
(* by identifier, the region classifier, and the three front ends (the     *)
(* Lambda handler, the FastAPI routes, the command line tracker).          *)
(*                                                                         *)
(* Conventions.                                                            *)
(*   - A Python str is a sequence of one-character strings, so that        *)
(*     strip(), lower() and upper() are computed, not assumed.             *)
(*   - A nullable value is a sequence of length 0 (None / NaN) or 1.       *)
(*   - Latitudes and longitudes are integers in tenths of a degree, which  *)
(*     represents every bound of REGION_BOXES exactly (39.5 is 395).       *)
(*   - Region and band labels are the English renderings of the Japanese   *)
(*     strings of the source.                                              *)
(***************************************************************************)
EXTENDS Integers, Sequences, FiniteSets, TLC

VARIABLES
    front,           \* the process that runs: "lambda", "fastapi", "cli",
                     \* or the harness of the pure functions: "select", "region"
    USE_OFFLINE,     \* flight_core.USE_OFFLINE
    SAVE_SNAPSHOT,   \* flight_core.SAVE_SNAPSHOT
    FORCE_SNAPSHOT,  \* os.getenv("FORCE_SNAPSHOT") == "1"
    snapshot,        \* the snapshot file: NoFile or the payload stored in it
    everFetched,     \* whether a live fetch was ever attempted by the process
    input,           \* the arguments drawn for a pure function
    last,            \* the last request: what was asked, what was answered
    cli              \* the command line tracker: position, callsign, counters

vars == << front, USE_OFFLINE, SAVE_SNAPSHOT, FORCE_SNAPSHOT, snapshot,
           everFetched, input, last, cli >>

---------------------------------------------------------------------------
(* Nullable values and strings *)

None == << >>

Some(x) == << x >>

Val(o) == o[1]

\* Python's  (s or "")  on a nullable str
OrEmpty(o) == IF o = None THEN << >> ELSE Val(o)

IsSpace(c) == c = " "

LowerChar(c) == IF c = "A" THEN "a" ELSE IF c = "B" THEN "b" ELSE c

UpperChar(c) == IF c = "a" THEN "A" ELSE IF c = "b" THEN "B" ELSE c

\* str.lower()
Lower(s) == [i \in 1..Len(s) |-> LowerChar(s[i])]

\* str.upper()
Upper(s) == [i \in 1..Len(s) |-> UpperChar(s[i])]

RECURSIVE LStrip(_)
LStrip(s) == IF s # << >> /\ IsSpace(Head(s)) THEN LStrip(Tail(s)) ELSE s

RECURSIVE RStrip(_)
RStrip(s) ==
    IF s # << >> /\ IsSpace(s[Len(s)]) THEN RStrip(SubSeq(s, 1, Len(s) - 1)) ELSE s

\* str.strip()
Strip(s) == RStrip(LStrip(s))

---------------------------------------------------------------------------
(* flight_core.py: the region classifier *)

Box(name, lat_min, lat_max, lon_min, lon_max) ==
    [name |-> name, lat_min |-> lat_min, lat_max |-> lat_max,
     lon_min |-> lon_min, lon_max |-> lon_max]

REGION_BOXES ==
    << Box("near Japan",                   200, 500,  1200, 1500),
       Box("near Korea",                   330, 395,  1240, 1320),
       Box("near eastern China",           200, 420,  1050, 1250),
       Box("near Germany",                 470, 560,    50,  160),
       Box("near France",                  420, 515,   -50,   80),
       Box("near the United Kingdom",      490, 610,  -100,   20),
       Box("near western Europe",          350, 700,  -100,  300),
       Box("near the North American west coast", 300, 550, -1350, -1100),
       Box("near central North America",   300, 550, -1100, -850),
       Box("near the North American east coast", 300, 500, -850, -600),
       Box("near the Middle East",         150, 400,   300,  600),
       Box("near Southeast Asia",         -100, 250,   950, 1300),
       Box("near Australia",              -450, -100, 1100, 1550) >>

\* the strings rough_location_from_latlon returns
Text(name) == [form |-> "text", name |-> name, country |-> "", lat |-> 0, lon |-> 0]

\* f"{origin_country} 付近"
NearCountry(c) == [form |-> "near", name |-> "", country |-> c, lat |-> 0, lon |-> 0]

\* f"緯度 {lat:.1f}°, 経度 {lon:.1f}° 付近": one decimal, which tenths hold exactly
NearCoords(lat, lon) ==
    [form |-> "coords", name |-> "", country |-> "", lat |-> lat, lon |-> lon]

LOCATION_UNKNOWN == Text("location unknown")

\* line 152: the containment test of one box
BoxContains(box, lat, lon) ==
    /\ box.lat_min <= lat /\ lat <= box.lat_max
    /\ box.lon_min <= lon /\ lon <= box.lon_max

\* ScanBoxes with the last box that holds the point winning
RECURSIVE ScanBoxesLastWins(_, _, _)
ScanBoxesLastWins(i, lat, lon) ==
    IF i > Len(REGION_BOXES) THEN None
    ELSE LET rest == ScanBoxesLastWins(i + 1, lat, lon)
         IN  IF rest # None THEN rest
             ELSE IF BoxContains(REGION_BOXES[i], lat, lon) THEN Some(REGION_BOXES[i].name)
             ELSE None

\* lines 151-153: the loop over REGION_BOXES, from box i on
RECURSIVE ScanBoxes(_, _, _)
ScanBoxes(i, lat, lon) ==
    IF i > Len(REGION_BOXES) THEN None
    ELSE IF BoxContains(REGION_BOXES[i], lat, lon) THEN Some(REGION_BOXES[i].name)
    ELSE ScanBoxes(i + 1, lat, lon)

\* lines 156-163: the longitude bands
OceanBand(lat, lon) ==
    IF lon < -1400 \/ lon > 1600
      THEN Some(IF lat >= 0 THEN "over the North Pacific" ELSE "over the South Pacific")
    ELSE IF -1400 <= lon /\ lon < -300
      THEN Some(IF lat >= 0 THEN "near North America" ELSE "near South America")
    ELSE IF -300 <= lon /\ lon < 600
      THEN Some(IF lat >= 0 THEN "near Europe or North Africa" ELSE "near southern Africa")
    ELSE IF 600 <= lon /\ lon <= 1500
      THEN Some(IF lat >= 0 THEN "near Asia" ELSE "Indian Ocean or Oceania")
    ELSE None

rough_location_from_latlon(lat, lon, origin_country) ==
    IF lat = None \/ lon = None THEN LOCATION_UNKNOWN
    ELSE LET la == Val(lat)
             lo == Val(lon)
             hit == ScanBoxes(1, la, lo)
             band == OceanBand(la, lo)
         IN  IF hit # None THEN Text(Val(hit))
             ELSE IF band # None THEN Text(Val(band))
             ELSE IF origin_country # None /\ Val(origin_country) # ""
               THEN NearCountry(Val(origin_country))
             ELSE NearCoords(la, lo)

---------------------------------------------------------------------------
(* The upstream feed *)

\* One row of "states".  len is the number of elements of the row: 17 in the
\* feed OpenSky documents, fewer in a malformed row (reading index k of a row
\* raises IndexError when k >= len).  The columns the code only copies
\* (time_position, velocity, heading, vertical_rate, sensors, squawk, spi,
\* position_source) are left out.
Row(icao24, callsign, origin_country, last_contact, longitude, latitude, baro_altitude, on_ground, geo_altitude) ==
    [len |-> 17, icao24 |-> icao24, callsign |-> callsign,
     origin_country |-> origin_country, last_contact |-> last_contact,
     longitude |-> longitude, latitude |-> latitude,
     baro_altitude |-> baro_altitude, on_ground |-> on_ground,
     geo_altitude |-> geo_altitude]

\* a row that holds the icao24 only
ShortRow(icao24) ==
    [Row(icao24, None, None, None, None, None, None, None, None) EXCEPT !.len = 1]

\* the JSON object {"time": ..., "states": ...}; states is null or a list
Payload(states) == [states |-> states]

\* a file: absent, or holding a payload
NoFile == [exists |-> FALSE, content |-> Payload(None)]

File(payload) == [exists |-> TRUE, content |-> payload]

\* what one attempt to reach the OpenSky endpoint can end in
FAILURES == {"http429", "httperr", "neterr", "timeout"}

\* Python's  (data.get("states") or [])
StatesOrEmpty(data) == IF data.states = None THEN << >> ELSE Val(data.states)

---------------------------------------------------------------------------
(* flight_core.py: the state source *)

MAX_LIST == 30

\* lines 32-40
load_snapshot_from_file(file) == IF ~file.exists THEN None ELSE Some(file.content)

\* raw_states_json without the test of USE_OFFLINE
raw_states_json_AlwaysLive(use_offline, save_snapshot, outcome, live, file) ==
    IF outcome \in FAILURES
      THEN [data |-> None, net |-> 1, loads |-> 0, file |-> file, origin |-> "none"]
    ELSE [data |-> Some(live), net |-> 1, loads |-> 0,
          file |-> IF save_snapshot THEN File(live) ELSE file, origin |-> "live"]

\* lines 45-76.  net and loads count the calls of requests.get and of
\* load_snapshot_from_file; origin says where the returned data came from.
raw_states_json(use_offline, save_snapshot, outcome, live, file) ==
    IF use_offline
      THEN [data |-> load_snapshot_from_file(file), net |-> 0, loads |-> 1,
            file |-> file, origin |-> IF file.exists THEN "snapshot" ELSE "none"]
    ELSE IF outcome \in {"neterr", "timeout"}      \* RequestException
      THEN [data |-> None, net |-> 1, loads |-> 0, file |-> file, origin |-> "none"]
    ELSE IF outcome = "http429"
      THEN [data |-> None, net |-> 1, loads |-> 0, file |-> file, origin |-> "none"]
    ELSE IF outcome = "httperr"                    \* raise_for_status
      THEN [data |-> None, net |-> 1, loads |-> 0, file |-> file, origin |-> "none"]
    ELSE [data |-> Some(live), net |-> 1, loads |-> 0,
          file |-> IF save_snapshot THEN File(live) ELSE file, origin |-> "live"]

\* line 97, with the frame's index kept as pos (the place of the row in the feed)
FrameRow(s, i) ==
    [pos |-> i, icao24 |-> s.icao24, callsign |-> s.callsign,
     callsign_norm |-> Upper(Strip(OrEmpty(s.callsign))),
     origin_country |-> s.origin_country, last_contact |-> s.last_contact,
     longitude |-> s.longitude, latitude |-> s.latitude,
     baro_altitude |-> s.baro_altitude, on_ground |-> s.on_ground,
     geo_altitude |-> s.geo_altitude]

\* lines 82-98: the DataFrame built from what _raw_states_json returned
DataFrameOf(data) ==
    IF data = None THEN << >>
    ELSE LET states == StatesOrEmpty(Val(data))
         IN  [i \in 1..Len(states) |-> FrameRow(states[i], i)]

\* line 103
RECURSIVE WithCallsign(_)
WithCallsign(df) ==
    IF df = << >> THEN << >>
    ELSE IF Head(df).callsign_norm # << >> THEN << Head(df) >> \o WithCallsign(Tail(df))
    ELSE WithCallsign(Tail(df))

\* whether row a may stand before row b after
\* sort_values("last_contact", ascending=False): the rows with a last_contact
\* come first, in descending order; the rows without one come last, in the
\* order of the frame (na_position="last").  The default kind, "quicksort",
\* is not stable: rows with the same last_contact may come in either order.
MayPrecede(a, b) ==
    IF a.last_contact = None THEN b.last_contact = None /\ a.pos < b.pos
    ELSE IF b.last_contact = None THEN TRUE
    ELSE Val(a.last_contact) >= Val(b.last_contact)

\* line 104: every order sort_values can give
SortValues(df) ==
    LET n == Len(df)
        perms == {p \in [1..n -> 1..n] : \A i, j \in 1..n : i # j => p[i] # p[j]}
    IN  {[i \in 1..n |-> df[p[i]]] : p \in
           {q \in perms : \A i, j \in 1..n : i < j => MayPrecede(df[q[i]], df[q[j]])}}

\* DataFrame.head(n), n >= 0
HeadRows(df, n) == SubSeq(df, 1, IF n < Len(df) THEN n ELSE Len(df))

\* lines 101-105: the set of frames select_candidates can return
select_candidates(df, max_list) ==
    {HeadRows(sorted, max_list) : sorted \in SortValues(WithCallsign(df))}

\* lines 173-185; alt_ft = alt * 3.28084 = alt * 82021 / 25000, compared in
\* units of 1/25000 ft
make_simple_comment(alt) ==
    IF alt = None THEN "no altitude"
    ELSE LET alt_ft == Val(alt) * 82021
         IN  IF alt_ft < 1000 * 25000 THEN "near the runway"
             ELSE IF alt_ft < 10000 * 25000 THEN "climbing"
             ELSE IF alt_ft < 25000 * 25000 THEN "between the clouds"
             ELSE "cruising above the clouds"

\* lines 188-194: "N/A", or the UTC date and time of the epoch second
ts_to_str(ts) ==
    IF ts = None THEN [text |-> "N/A", epoch |-> 0] ELSE [text |-> "UTC", epoch |-> Val(ts)]

\* bool(row["on_ground"])
BoolOf(o) == IF o = None THEN FALSE ELSE Val(o)

\* lines 208-223: one entry of the list
PlaneEntry(row) ==
    [pos |-> row.pos, callsign |-> row.callsign_norm,
     origin_country |-> row.origin_country, icao24 |-> row.icao24,
     latitude |-> row.latitude, longitude |-> row.longitude,
     on_ground |-> BoolOf(row.on_ground),
     rough_location |->
         rough_location_from_latlon(row.latitude, row.longitude, row.origin_country),
     last_contact |-> ts_to_str(row.last_contact)]

\* the outcome of one call of a function of flight_core: what it returned,
\* and what it did to get it
Outcome(kind, planes, state, raw) ==
    [kind |-> kind, planes |-> planes, state |-> state,
     net |-> raw.net, loads |-> raw.loads, file |-> raw.file, origin |-> raw.origin,
     data |-> raw.data]

NoCall(file) == [data |-> None, net |-> 0, loads |-> 0, file |-> file, origin |-> "none"]

\* lines 199-225: the outcomes get_plane_list can have
get_plane_list(use_offline, save_snapshot, outcome, live, file) ==
    LET raw == raw_states_json(use_offline, save_snapshot, outcome, live, file)
        df  == DataFrameOf(raw.data)
    IN  IF df = << >> THEN {Outcome("list", << >>, None, raw)}
        ELSE {Outcome("list", [i \in 1..Len(cands) |-> PlaneEntry(cands[i])], None, raw) :
                cands \in select_candidates(df, MAX_LIST)}

\* line 238
RECURSIVE RowsWithCallsign(_, _)
RowsWithCallsign(df, callsign_norm) ==
    IF df = << >> THEN << >>
    ELSE IF Head(df).callsign_norm = callsign_norm
      THEN << Head(df) >> \o RowsWithCallsign(Tail(df), callsign_norm)
    ELSE RowsWithCallsign(Tail(df), callsign_norm)

\* lines 242-274: the dict of one row
StateEntry(row) ==
    LET alt_use == IF row.geo_altitude # None THEN row.geo_altitude ELSE row.baro_altitude
    IN  [pos |-> row.pos, callsign |-> row.callsign_norm, icao24 |-> row.icao24,
         origin_country |-> row.origin_country,
         latitude |-> row.latitude, longitude |-> row.longitude,
         baro_altitude |-> row.baro_altitude, geo_altitude |-> row.geo_altitude,
         on_ground |-> BoolOf(row.on_ground),
         last_contact |-> ts_to_str(row.last_contact),
         location_text |->
             rough_location_from_latlon(row.latitude, row.longitude, row.origin_country),
         comment_text |-> make_simple_comment(alt_use)]

\* lines 228-274; callsign is a nullable str
get_latest_state(callsign, use_offline, save_snapshot, outcome, live, file) ==
    LET callsign_norm == Upper(Strip(OrEmpty(callsign)))
    IN  IF callsign_norm = << >> THEN Outcome("none", << >>, None, NoCall(file))
        ELSE LET raw == raw_states_json(use_offline, save_snapshot, outcome, live, file)
                 df  == DataFrameOf(raw.data)
                 df_target == RowsWithCallsign(df, callsign_norm)
             IN  IF df = << >> THEN Outcome("none", << >>, None, raw)
                 ELSE IF df_target = << >> THEN Outcome("none", << >>, None, raw)
                 ELSE Outcome("state", << >>, Some(StateEntry(df_target[1])), raw)

---------------------------------------------------------------------------
(* src/app.py: the Lambda handler *)

\* lines 42-45: the file's payload, or {"time": None, "states": []}
load_snapshot(file) == IF file.exists THEN file.content ELSE Payload(Some(<< >>))

\* fetch_opensky_or_snapshot with a second attempt after a failed one
fetch_opensky_or_snapshot_Retrying(force_snapshot, outcome, live, file) ==
    IF force_snapshot
      THEN [data |-> load_snapshot(file), source |-> "snapshot", net |-> 0, loads |-> 1,
            origin |-> IF file.exists THEN "snapshot" ELSE "fabricated"]
    ELSE IF outcome = "ok"
      THEN [data |-> live, source |-> "live", net |-> 1, loads |-> 0, origin |-> "live"]
    ELSE [data |-> load_snapshot(file), source |-> "snapshot", net |-> 2, loads |-> 1,
          origin |-> IF file.exists THEN "snapshot" ELSE "fabricated"]

\* lines 48-63.  net and loads count the calls of urlopen and of load_snapshot.
fetch_opensky_or_snapshot(force_snapshot, outcome, live, file) ==
    IF force_snapshot
      THEN [data |-> load_snapshot(file), source |-> "snapshot", net |-> 0, loads |-> 1,
            origin |-> IF file.exists THEN "snapshot" ELSE "fabricated"]
    ELSE IF outcome = "ok"
      THEN [data |-> live, source |-> "live", net |-> 1, loads |-> 0, origin |-> "live"]
    ELSE \* except Exception
         [data |-> load_snapshot(file), source |-> "snapshot", net |-> 1, loads |-> 1,
          origin |-> IF file.exists THEN "snapshot" ELSE "fabricated"]

Returned(v) == [raised |-> FALSE, exc |-> "", value |-> v]

Raised(exc) == [raised |-> TRUE, exc |-> exc, value |-> << >>]

\* lines 75-91: the dict of one state (geo_altitude is s[13])
PlaneDict(s, i) ==
    [pos |-> i, icao24 |-> s.icao24, callsign |-> Strip(OrEmpty(s.callsign)),
     origin_country |-> s.origin_country, last_contact |-> s.last_contact,
     longitude |-> s.longitude, latitude |-> s.latitude,
     baro_altitude |-> s.baro_altitude, geo_altitude |-> s.geo_altitude,
     on_ground |-> s.on_ground]

\* lines 69-93: the loop, from state i on, with the result built so far
RECURSIVE ToPlaneListFrom(_, _, _, _)
ToPlaneListFrom(states, i, result, limit) ==
    IF i > Len(states) THEN Returned(result)
    ELSE LET s == states[i]
         IN  IF s.len < 2 THEN Raised("IndexError")                  \* s[1]
             ELSE IF Strip(OrEmpty(s.callsign)) = << >>
               THEN ToPlaneListFrom(states, i + 1, result, limit)    \* continue
             ELSE IF s.len < 14 THEN Raised("IndexError")            \* s[13]
             ELSE LET next == Append(result, PlaneDict(s, i))
                  IN  IF Len(next) >= limit THEN Returned(next)      \* break
                      ELSE ToPlaneListFrom(states, i + 1, next, limit)

\* lines 66-94
to_plane_list(data, limit) == ToPlaneListFrom(StatesOrEmpty(data), 1, << >>, limit)

\* lines 106-119: the dict of the state found
HitDict(s, i) ==
    [pos |-> i, icao24 |-> s.icao24, callsign |-> Strip(OrEmpty(s.callsign)),
     origin_country |-> s.origin_country, last_contact |-> s.last_contact,
     longitude |-> s.longitude, latitude |-> s.latitude,
     baro_altitude |-> s.baro_altitude, on_ground |-> s.on_ground]

\* FindFrom comparing the icao24 as stored, case and all
RECURSIVE FindFromCaseSensitive(_, _, _)
FindFromCaseSensitive(states, i, target) ==
    IF i > Len(states) THEN Returned(None)
    ELSE LET s == states[i]
         IN  IF OrEmpty(s.icao24) = target
               THEN IF s.len < 12 THEN Raised("IndexError")
                    ELSE Returned(Some(HitDict(s, i)))
             ELSE FindFromCaseSensitive(states, i + 1, target)

\* lines 103-120: the loop, from state i on
RECURSIVE FindFrom(_, _, _)
FindFrom(states, i, target) ==
    IF i > Len(states) THEN Returned(None)
    ELSE LET s == states[i]
         IN  IF Lower(OrEmpty(s.icao24)) = target
               THEN IF s.len < 12 THEN Raised("IndexError")          \* s[1] .. s[11]
                    ELSE Returned(Some(HitDict(s, i)))
             ELSE FindFrom(states, i + 1, target)

\* lines 97-120; icao24 is a nullable str
find_by_icao24(data, icao24) ==
    LET target == Lower(Strip(OrEmpty(icao24)))
    IN  IF target = << >> THEN Returned(None)
        ELSE FindFrom(StatesOrEmpty(data), 1, target)

\* An event: requestContext is one of the shapes of RC_SHAPES; httpMethod, path
\* and rawPath are nullable strings; qs is None (no queryStringParameters),
\* Some(None) (no icao24 in it) or Some(Some(icao24)).
Event(rc, httpMethod, path, rawPath, qs) ==
    [rc |-> rc, httpMethod |-> httpMethod, path |-> path, rawPath |-> rawPath, qs |-> qs]

\* requestContext: absent, {}, {"http": {}}, {"http": {"method": m}},
\* and the shapes that have no .get: null, {"http": null}, a string
RC_SHAPES == {"absent", "empty", "http_empty", "GET", "OPTIONS", "null", "http_null", "string"}

\* line 124: event.get("requestContext", {}).get("http", {}).get("method")
RequestContextMethod(rc) ==
    IF rc \in {"null", "http_null", "string"} THEN Raised("AttributeError")
    ELSE IF rc \in {"GET", "OPTIONS"} THEN Returned(Some(rc))
    ELSE Returned(None)

\* Python's  a or b  on nullable strings
Or(a, b) == IF a # None /\ Val(a) # "" THEN a ELSE b

Body(type, source, planes, hit, error) ==
    [type |-> type, source |-> source, count |-> Len(planes), planes |-> planes,
     hit |-> hit, error |-> error]

\* what one invocation did: the response it returned or the exception it let
\* out, and the calls it made
Invocation(kind, statusCode, body, fetched) ==
    [kind |-> kind, statusCode |-> statusCode, body |-> body,
     net |-> fetched.net, loads |-> fetched.loads, origin |-> fetched.origin,
     data |-> fetched.data]

NotFetched == [data |-> Payload(None), source |-> "", net |-> 0, loads |-> 0, origin |-> "none"]

NoBody == Body("none", "", << >>, None, "")

\* lines 150-163: /planes, /track and the other paths, behind the fetch
Routes(path, qs, fetched) ==
    LET data == fetched.data
        source == fetched.source
    IN  IF path = "/planes"
          THEN LET planes == to_plane_list(data, 200)
               IN  IF planes.raised
                     THEN Invocation("response", 500, Body("error", "", << >>, None, planes.exc), fetched)
                   ELSE Invocation("response", 200, Body("planes", source, planes.value, None, ""), fetched)
        ELSE IF path = "/track"
          THEN LET icao24 == IF qs = None THEN None ELSE Val(qs)
                   hit == find_by_icao24(data, icao24)
               IN  IF hit.raised
                     THEN Invocation("response", 500, Body("error", "", << >>, None, hit.exc), fetched)
                   ELSE IF hit.value = None
                     THEN Invocation("response", 404, Body("track", source, << >>, None, "not found"), fetched)
                   ELSE Invocation("response", 200, Body("track", source, << >>, hit.value, ""), fetched)
        ELSE Invocation("response", 404, Body("path", "", << >>, None, "not found"), fetched)

\* lines 123-167.  Both branches of lines 145-147 (static/index.html present
\* or not) return a 200 HTML response; they are one response here.
lambda_handler(event, force_snapshot, outcome, live, file) ==
    LET rcMethod == RequestContextMethod(event.rc)
    IN  IF rcMethod.raised                              \* line 124, before the try
          THEN Invocation("raised", 0, Body("none", "", << >>, None, rcMethod.exc), NotFetched)
        ELSE LET method == Or(Or(rcMethod.value, event.httpMethod), Some("GET"))
                 path == Val(Or(Or(event.path, event.rawPath), Some("/")))
             IN  IF method = Some("OPTIONS") THEN Invocation("response", 204, NoBody, NotFetched)
                 ELSE IF path = "/"
                   THEN Invocation("response", 200, Body("html", "", << >>, None, ""), NotFetched)
                 ELSE Routes(path, event.qs,
                             fetch_opensky_or_snapshot(force_snapshot, outcome, live, file))

---------------------------------------------------------------------------
(* airplain_cli.py *)

MAX_ITERATIONS == 10

---------------------------------------------------------------------------
(* The inputs of the front ends *)

MaxFeedLen == 2

\* every feed of at most n rows drawn from rows
Feeds(rows, n) == UNION {[1..k -> rows] : k \in 0..n}

\* Over Tokyo, callsign "A1 ", icao24 "a1"
RowTokyo ==
    Row(Some(<<"a", "1">>), Some(<<"A", "1", " ">>), Some("Japan"), Some(100), Some(1395), Some(357), Some(3000), Some(FALSE), None)

\* No callsign and no position
RowSilent ==
    Row(Some(<<"b", "1">>), None, Some("France"), Some(200), None, None, None, None, None)

\* A malformed row with the icao24 of RowTokyo
RowShort == ShortRow(Some(<<"a", "1">>))

\* The row of the snapshot: callsign "b2", east of every box and band
RowStored ==
    Row(Some(<<"b", "2">>), Some(<<"b", "2">>), Some(""), Some(50), Some(1550), Some(0), None, Some(TRUE), Some(12000))

\* the payloads a live fetch can return to the Lambda handler
LambdaLive ==
    {Payload(Some(f)) : f \in Feeds({RowTokyo, RowShort}, MaxFeedLen)} \cup {Payload(None)}

\* the payloads a live fetch can return to flight_core (rows as OpenSky documents them)
CoreLive == {Payload(Some(f)) : f \in Feeds({RowTokyo, RowSilent}, MaxFeedLen)}

\* the snapshot file when the process starts
SnapshotFiles == {NoFile, File(Payload(Some(<< RowStored >>)))}

\* one attempt to fetch: how it ends, and the payload when it succeeds
Attempts(lives) ==
    {[outcome |-> f, live |-> Payload(None)] : f \in FAILURES}
      \cup {[outcome |-> "ok", live |-> l] : l \in lives}

\* the identifiers asked for
Identifiers == {None, Some(<<" ">>), Some(<<"A", "1">>), Some(<<" ", "a", "1">>), Some(<<"b", "2">>)}

Events ==
    {Event(rc, None, Some("/planes"), None, None) : rc \in RC_SHAPES}
      \cup {Event("absent", m, Some("/planes"), None, None) :
              m \in {Some("OPTIONS"), Some("GET"), Some("")}}
      \cup {Event("GET", Some("OPTIONS"), Some("/track"), None, None),
            Event("http_empty", Some("OPTIONS"), None, None, None)}
      \cup {Event("absent", None, p, r, None) :
              p \in {None, Some("/"), Some("/other")}, r \in {None, Some("/planes")}}
      \cup {Event("absent", None, Some("/track"), None, q) :
              q \in {None} \cup {Some(i) : i \in Identifiers}}

---------------------------------------------------------------------------
(* The front ends *)

Idle == [op |-> "idle"]

CliOff == [pc |-> "off", planes |-> << >>, callsign |-> << >>, i |-> 0, fetches |-> 0, lookups |-> 0]

CliStart == [CliOff EXCEPT !.pc = "start"]

Init ==
    /\ front \in {"lambda", "fastapi", "cli"}
    /\ USE_OFFLINE \in IF front = "lambda" THEN {FALSE} ELSE BOOLEAN
    /\ SAVE_SNAPSHOT \in IF front = "lambda" THEN {FALSE} ELSE BOOLEAN
    /\ FORCE_SNAPSHOT \in IF front = "lambda" THEN BOOLEAN ELSE {FALSE}
    /\ snapshot \in SnapshotFiles
    /\ everFetched = FALSE
    /\ input = Idle
    /\ last = Idle
    /\ cli = IF front = "cli" THEN CliStart ELSE CliOff

\* what a call of flight_core leaves in last
CoreCall(op, callsign, attempt, out, response) ==
    [op |-> op, callsign |-> callsign, attempt |-> attempt, result |-> out,
     response |-> response, net |-> out.net, loads |-> out.loads,
     origin |-> out.origin, used |-> out.data]

\* src/app.py: one invocation of lambda_handler
LambdaInvoke ==
    /\ front = "lambda"
    /\ \E event \in Events, attempt \in Attempts(LambdaLive) :
         LET r == lambda_handler(event, FORCE_SNAPSHOT, attempt.outcome, attempt.live, snapshot)
         IN  /\ last' = [op |-> "lambda_handler", event |-> event, attempt |-> attempt,
                         result |-> r, net |-> r.net, loads |-> r.loads,
                         origin |-> r.origin, used |-> Some(r.data)]
             /\ everFetched' = (everFetched \/ r.net > 0)
    /\ UNCHANGED << front, USE_OFFLINE, SAVE_SNAPSHOT, FORCE_SNAPSHOT, snapshot, input, cli >>

\* app.py lines 17-22: GET /
ApiRoot ==
    /\ front = "fastapi"
    /\ last' = [op |-> "root", net |-> 0, loads |-> 0, origin |-> "none", used |-> None,
                response |-> "html"]
    /\ UNCHANGED << front, USE_OFFLINE, SAVE_SNAPSHOT, FORCE_SNAPSHOT, snapshot,
                    everFetched, input, cli >>

\* app.py lines 24-26: GET /planes
ApiPlanes ==
    /\ front = "fastapi"
    /\ \E attempt \in Attempts(CoreLive) :
         \E out \in get_plane_list(USE_OFFLINE, SAVE_SNAPSHOT, attempt.outcome, attempt.live, snapshot) :
             /\ last' = CoreCall("get_plane_list", None, attempt, out, "list")
             /\ snapshot' = out.file
             /\ everFetched' = (everFetched \/ out.net > 0)
    /\ UNCHANGED << front, USE_OFFLINE, SAVE_SNAPSHOT, FORCE_SNAPSHOT, input, cli >>

\* app.py lines 28-33: GET /track/{callsign}
ApiTrack ==
    /\ front = "fastapi"
    /\ \E callsign \in Identifiers \ {None}, attempt \in Attempts(CoreLive) :
         LET out == get_latest_state(callsign, USE_OFFLINE, SAVE_SNAPSHOT,
                                     attempt.outcome, attempt.live, snapshot)
         IN  /\ last' = CoreCall("get_latest_state", callsign, attempt, out,
                                 IF out.state = None THEN "not found" ELSE "state")
             /\ snapshot' = out.file
             /\ everFetched' = (everFetched \/ out.net > 0)
    /\ UNCHANGED << front, USE_OFFLINE, SAVE_SNAPSHOT, FORCE_SNAPSHOT, input, cli >>

\* airplain_cli.py lines 67-73: main, up to the list
CliMain ==
    /\ front = "cli" /\ cli.pc = "start"
    /\ \E attempt \in Attempts(CoreLive) :
         \E out \in get_plane_list(USE_OFFLINE, SAVE_SNAPSHOT, attempt.outcome, attempt.live, snapshot) :
             /\ last' = CoreCall("get_plane_list", None, attempt, out, "list")
             /\ snapshot' = out.file
             /\ everFetched' = (everFetched \/ out.net > 0)
             /\ cli' = IF out.planes = << >> THEN [cli EXCEPT !.pc = "done"]
                       ELSE [cli EXCEPT !.pc = "choose", !.planes = out.planes]
    /\ UNCHANGED << front, USE_OFFLINE, SAVE_SNAPSHOT, FORCE_SNAPSHOT, input >>

\* airplain_cli.py lines 74-78 and 12-22: choose_index returns an index of the list
CliChoose ==
    /\ front = "cli" /\ cli.pc = "choose"
    /\ \E idx \in 0..(Len(cli.planes) - 1) :
         cli' = [cli EXCEPT !.pc = "tracking", !.callsign = cli.planes[idx + 1].callsign,
                            !.planes = << >>]
    /\ UNCHANGED << front, USE_OFFLINE, SAVE_SNAPSHOT, FORCE_SNAPSHOT, snapshot,
                    everFetched, input, last >>

\* airplain_cli.py lines 55-64: one iteration of the loop of track_flight_cli
CliIterate ==
    /\ front = "cli" /\ cli.pc = "tracking"
    /\ cli.i < MAX_ITERATIONS
    /\ \E attempt \in Attempts(CoreLive) :
         LET out == get_latest_state(Some(cli.callsign), USE_OFFLINE, SAVE_SNAPSHOT,
                                     attempt.outcome, attempt.live, snapshot)
         IN  /\ last' = CoreCall("get_latest_state", Some(cli.callsign), attempt, out,
                                 IF out.state = None THEN "not found" ELSE "state")
             /\ snapshot' = out.file
             /\ everFetched' = (everFetched \/ out.net > 0)
             /\ cli' = [cli EXCEPT !.i = cli.i + 1,
                                   !.fetches = cli.fetches + out.net,
                                   !.lookups = cli.lookups + 1,
                                   !.pc = IF cli.i + 1 = MAX_ITERATIONS THEN "done" ELSE "tracking"]
    /\ UNCHANGED << front, USE_OFFLINE, SAVE_SNAPSHOT, FORCE_SNAPSHOT, input >>

Next ==
    \/ LambdaInvoke
    \/ ApiRoot
    \/ ApiPlanes
    \/ ApiTrack
    \/ CliMain
    \/ CliChoose
    \/ CliIterate

Spec == Init /\ [][Next]_vars

---------------------------------------------------------------------------
(* Properties of the state source and of the front ends *)

\* the last request went to the state source
Fetching == last.op \in {"lambda_handler", "get_plane_list", "get_latest_state"}

\* the force-offline override of the running process
ForcedOffline == IF front = "lambda" THEN FORCE_SNAPSHOT ELSE USE_OFFLINE

\* the last request made a live fetch, and the fetch failed
LiveFetchFailed ==
    Fetching /\ ~ForcedOffline /\ last.net > 0 /\ last.attempt.outcome \in FAILURES

\* the last request was a list or a track request
ListOrTrack ==
    IF front = "lambda" THEN last.result.kind = "response" /\ last.result.body.type # "path"
    ELSE TRUE

\* C1: when offline mode is not forced, the live fetch fails and a snapshot
\* file exists, the request is answered from the payload of the snapshot file
\* (with provenance "snapshot" where a provenance tag is returned).
C1_SnapshotFallback ==
    (LiveFetchFailed /\ snapshot.exists) =>
        /\ last.origin = "snapshot"
        /\ last.used = Some(snapshot.content)
        /\ (front = "lambda" /\ last.result.body.type \in {"planes", "track"}
              => last.result.body.source = "snapshot")

\* the last request told its caller that no data is available
SurfacesUnavailable ==
    IF front = "lambda"
      THEN last.result.kind = "raised" \/ last.result.statusCode >= 500
      ELSE last.result.kind \notin {"list", "none", "state"}

\* C2: when the live fetch fails and no snapshot file exists, a list or track
\* request surfaces a data-unavailable failure: never a successful response
\* built from fabricated data, an ordinary empty list, or "not found".
C2_UnavailableSurfaced ==
    (LiveFetchFailed /\ ~snapshot.exists /\ ListOrTrack) => SurfacesUnavailable

\* the records the last request returned
ReturnedRecords ==
    IF last.op = "lambda_handler"
      THEN IF last.result.kind # "response" THEN {}
           ELSE {last.result.body.planes[i] : i \in 1..Len(last.result.body.planes)}
                  \cup (IF last.result.body.hit = None THEN {} ELSE {Val(last.result.body.hit)})
    ELSE IF last.op \in {"get_plane_list", "get_latest_state"}
      THEN {last.result.planes[i] : i \in 1..Len(last.result.planes)}
             \cup (IF last.result.state = None THEN {} ELSE {Val(last.result.state)})
    ELSE {}

\* record e was built from a row of the snapshot file
FromSnapshotFile(e) ==
    /\ snapshot.exists
    /\ LET states == StatesOrEmpty(snapshot.content)
       IN  /\ e.pos \in 1..Len(states)
           /\ states[e.pos].icao24 = e.icao24
           /\ states[e.pos].origin_country = e.origin_country

\* C3: with the force-offline override set, no request attempts a live fetch:
\* the number of network calls stays 0, what is returned comes from the
\* snapshot file only, and the provenance is never "live".
C3_ForcedOfflineNeverFetches ==
    ForcedOffline =>
        /\ ~everFetched
        /\ last.op # "idle" =>
             /\ last.net = 0
             /\ last.origin # "live"
             /\ \A e \in ReturnedRecords : FromSnapshotFile(e)
             /\ (last.op = "lambda_handler" /\ last.result.kind = "response"
                   => last.result.body.source # "live")

C3_Witness ==
    /\ ForcedOffline /\ Fetching /\ last.attempt.outcome = "ok"
    /\ ReturnedRecords # {}

\* C7: lambda_handler lets no exception out: every event is answered with a
\* response, and an internal error becomes a statusCode 500 response with a
\* message.
C7_NoExceptionEscapes ==
    last.op = "lambda_handler" =>
        /\ last.result.kind = "response"
        /\ last.result.body.type = "error" =>
             last.result.statusCode = 500 /\ last.result.body.error # ""

\* the method lambda_handler resolves for the event is OPTIONS
AsksOptions(e) ==
    \/ e.rc = "OPTIONS"
    \/ e.rc \in {"absent", "empty", "http_empty"} /\ e.httpMethod = Some("OPTIONS")

\* the path lambda_handler resolves for the event is "/"
AsksRoot(e) ==
    \/ e.path = Some("/")
    \/ e.path = None /\ e.rawPath \in {None, Some("/")}

IsBlank(s) == \A i \in 1..Len(s) : IsSpace(s[i])

\* C9: a request makes at most one live fetch attempt and at most one snapshot
\* load; OPTIONS and "/" requests, and get_latest_state with a blank callsign,
\* make none; track_flight_cli ends after exactly MAX_ITERATIONS lookups, with
\* at most MAX_ITERATIONS fetch attempts.
C9_AtMostOneFetch ==
    /\ last.op # "idle" => last.net <= 1 /\ last.loads <= 1
    /\ (last.op = "lambda_handler" /\ (AsksOptions(last.event) \/ AsksRoot(last.event)))
         => last.net = 0 /\ last.loads = 0
    /\ (last.op = "get_latest_state" /\ IsBlank(OrEmpty(last.callsign)))
         => last.net = 0 /\ last.loads = 0
    /\ cli.lookups = cli.i /\ cli.i <= MAX_ITERATIONS /\ cli.fetches <= cli.lookups
    /\ cli.pc = "tracking" => cli.lookups < MAX_ITERATIONS
    /\ (cli.pc = "done" /\ cli.callsign # << >>) => cli.lookups = MAX_ITERATIONS

C9_Witness ==
    cli.pc = "done" /\ cli.lookups = MAX_ITERATIONS /\ cli.fetches = MAX_ITERATIONS

---------------------------------------------------------------------------
(* The region classifier on its own *)

BoxIndexes == 1..Len(REGION_BOXES)

\* every bound of a box and of a band, and the ends of the globe
LatEdges ==
    {REGION_BOXES[i].lat_min : i \in BoxIndexes} \cup {REGION_BOXES[i].lat_max : i \in BoxIndexes}
      \cup {-900, 0, 900}

LonEdges ==
    {REGION_BOXES[i].lon_min : i \in BoxIndexes} \cup {REGION_BOXES[i].lon_max : i \in BoxIndexes}
      \cup {-1800, -1400, -300, 600, 1500, 1600, 1800}

\* every edge and the tenth of a degree on each side of it: no two edges are
\* closer than two tenths, so every cell the edges cut the globe into holds a point
Around(edges, lo, hi) == {x \in UNION {{e - 1, e, e + 1} : e \in edges} : lo <= x /\ x <= hi}

Latitudes == Around(LatEdges, -900, 900)

Longitudes == Around(LonEdges, -1800, 1800)

Countries == {None, Some(""), Some("Japan")}

InitRegion ==
    /\ front = "region"
    /\ USE_OFFLINE = FALSE /\ SAVE_SNAPSHOT = FALSE /\ FORCE_SNAPSHOT = FALSE
    /\ snapshot = NoFile
    /\ everFetched = FALSE
    /\ input \in [lat : {None} \cup {Some(x) : x \in Latitudes},
                  lon : {None} \cup {Some(x) : x \in Longitudes},
                  origin_country : Countries]
    /\ last = Idle
    /\ cli = CliOff

RoughLocation ==
    /\ front = "region" /\ last = Idle
    /\ last' = [op |-> "rough_location_from_latlon",
                result |-> rough_location_from_latlon(input.lat, input.lon, input.origin_country)]
    /\ UNCHANGED << front, USE_OFFLINE, SAVE_SNAPSHOT, FORCE_SNAPSHOT, snapshot,
                    everFetched, input, cli >>

NextRegion == RoughLocation

SpecRegion == InitRegion /\ [][NextRegion]_vars

\* the boxes whose closed intervals hold the point
Containing(lat, lon) ==
    {i \in BoxIndexes :
        /\ REGION_BOXES[i].lat_min <= lat /\ lat <= REGION_BOXES[i].lat_max
        /\ REGION_BOXES[i].lon_min <= lon /\ lon <= REGION_BOXES[i].lon_max}

Least(S) == CHOOSE x \in S : \A y \in S : x <= y

NorthLabels ==
    {"over the North Pacific", "near North America", "near Europe or North Africa", "near Asia"}

SouthLabels ==
    {"over the South Pacific", "near South America", "near southern Africa",
     "Indian Ocean or Oceania"}

\* the bands leave out the longitudes above 150 and up to 160
BandApplies(lon) == lon <= 1500 \/ lon > 1600

\* C8: rough_location_from_latlon falls through its tiers in a fixed order:
\* the name of the first box of REGION_BOXES whose closed intervals hold the
\* point; only if no box holds it, a longitude band label; only if no band
\* applies, the origin country; only if no country is given, the coordinates.
\* A missing latitude or longitude gives the location-unknown string.
C8_TiersInOrder ==
    last.op = "rough_location_from_latlon" =>
        LET r == last.result
        IN  IF input.lat = None \/ input.lon = None THEN r = LOCATION_UNKNOWN
            ELSE LET lat == Val(input.lat)
                     lon == Val(input.lon)
                     boxes == Containing(lat, lon)
                     country == input.origin_country
                 IN  IF boxes # {} THEN r = Text(REGION_BOXES[Least(boxes)].name)
                     ELSE IF BandApplies(lon)
                       THEN r.form = "text"
                            /\ r.name \in (IF lat >= 0 THEN NorthLabels ELSE SouthLabels)
                     ELSE IF country # None /\ Val(country) # "" THEN r = NearCountry(Val(country))
                     ELSE r = NearCoords(lat, lon)

\* a point that two boxes hold has been classified
C8_Witness ==
    /\ last.op = "rough_location_from_latlon"
    /\ input.lat # None /\ input.lon # None
    /\ Cardinality(Containing(Val(input.lat), Val(input.lon))) >= 2

\* box i is returned for some point it holds
BoxReachable(i) ==
    LET b == REGION_BOXES[i]
    IN  \E lat \in {x \in Latitudes : b.lat_min <= x /\ x <= b.lat_max},
           lon \in {x \in Longitudes : b.lon_min <= x /\ x <= b.lon_max} :
            rough_location_from_latlon(Some(lat), Some(lon), None) = Text(b.name)

\* C10: every region name of REGION_BOXES is returned for some point of its
\* box: no box is wholly covered by the boxes listed before it.  Stated of
\* the boxes that hold the point classified.
C10_EveryBoxReachable ==
    (last.op = "rough_location_from_latlon" /\ input.lat # None /\ input.lon # None) =>
        \A i \in Containing(Val(input.lat), Val(input.lon)) : BoxReachable(i)

---------------------------------------------------------------------------
(* Candidate selection and lookup on their own *)

MaxSelLen == 3

MaxCount == 3

\* a row with an identifier, a callsign and a last_contact only
Plain(icao24, callsign, last_contact) ==
    Row(icao24, callsign, None, last_contact, None, None, None, None, None)

SelRows ==
    { Plain(Some(<<"a", "1">>), Some(<<"A", "1", " ">>), Some(100)),
      Plain(Some(<<"A", "1">>), Some(<<" ", "a", "1">>), Some(100)),
      Plain(Some(<<"b", "2">>), Some(<<"b", "2">>), Some(200)),
      Plain(Some(<<"b", "1">>), None, Some(300)),
      Plain(Some(<<" ", "a", "1">>), Some(<<" ">>), Some(50)),
      Plain(None, Some(<<"B", "2">>), None) }

SelIdentifiers ==
    {None, Some(<< >>), Some(<<" ">>), Some(<<"A", "1">>), Some(<<" ", "a", "1">>),
     Some(<<"a", "1", " ">>), Some(<<"B", "2">>), Some(<<"1">>)}

InitSelect ==
    /\ front = "select"
    /\ USE_OFFLINE = FALSE /\ SAVE_SNAPSHOT = FALSE /\ FORCE_SNAPSHOT = FALSE
    /\ snapshot = NoFile
    /\ everFetched = FALSE
    /\ input \in {Payload(Some(f)) : f \in Feeds(SelRows, MaxSelLen)}
    /\ last = Idle
    /\ cli = CliOff

Unused == << front, USE_OFFLINE, SAVE_SNAPSHOT, FORCE_SNAPSHOT, snapshot, everFetched, input, cli >>

\* select_candidates on the frame of the feed
SelectCandidates ==
    /\ front = "select" /\ last = Idle
    /\ \E max_list \in 0..MaxCount :
         \E out \in select_candidates(DataFrameOf(Some(input)), max_list) :
             last' = [op |-> "select_candidates", max_count |-> max_list, rows |-> out]
    /\ UNCHANGED Unused

\* get_plane_list, the live fetch returning the feed
GetPlaneList ==
    /\ front = "select" /\ last = Idle
    /\ \E out \in get_plane_list(FALSE, FALSE, "ok", input, NoFile) :
         last' = [op |-> "get_plane_list", max_count |-> MAX_LIST, rows |-> out.planes]
    /\ UNCHANGED Unused

\* to_plane_list on the feed
ToPlaneList ==
    /\ front = "select" /\ last = Idle
    /\ \E limit \in 0..MaxCount :
         LET out == to_plane_list(input, limit)
         IN  last' = [op |-> "to_plane_list", max_count |-> limit, rows |-> out.value]
    /\ UNCHANGED Unused

\* lambda_handler on GET /planes, the live fetch returning the feed
LambdaPlanes ==
    /\ front = "select" /\ last = Idle
    /\ LET r == lambda_handler(Event("absent", Some("GET"), Some("/planes"), None, None),
                               FALSE, "ok", input, NoFile)
       IN  last' = [op |-> "planes", max_count |-> 200, rows |-> r.body.planes,
                    statusCode |-> r.statusCode, count |-> r.body.count]
    /\ UNCHANGED Unused

\* find_by_icao24 on the feed
FindByIcao24 ==
    /\ front = "select" /\ last = Idle
    /\ \E icao24 \in SelIdentifiers :
         last' = [op |-> "find_by_icao24", identifier |-> icao24,
                  found |-> find_by_icao24(input, icao24).value]
    /\ UNCHANGED Unused

\* lambda_handler on GET /track, the live fetch returning the feed
LambdaTrack ==
    /\ front = "select" /\ last = Idle
    /\ \E icao24 \in SelIdentifiers :
         LET r == lambda_handler(Event("absent", Some("GET"), Some("/track"), None, Some(icao24)),
                                 FALSE, "ok", input, NoFile)
         IN  last' = [op |-> "track", identifier |-> icao24, found |-> r.body.hit,
                      statusCode |-> r.statusCode, error |-> r.body.error]
    /\ UNCHANGED Unused

\* get_latest_state, the live fetch returning the feed
GetLatestState ==
    /\ front = "select" /\ last = Idle
    /\ \E callsign \in SelIdentifiers :
         last' = [op |-> "get_latest_state", identifier |-> callsign,
                  found |-> get_latest_state(callsign, FALSE, FALSE, "ok", input, NoFile).state]
    /\ UNCHANGED Unused

NextSelect ==
    \/ SelectCandidates
    \/ GetPlaneList
    \/ ToPlaneList
    \/ LambdaPlanes
    \/ FindByIcao24
    \/ LambdaTrack
    \/ GetLatestState

SpecSelect == InitSelect /\ [][NextSelect]_vars

\* the rows of the feed drawn
FeedRows == StatesOrEmpty(input)

\* the same string but for the case of its letters
SameButCase(s, t) ==
    /\ Len(s) = Len(t)
    /\ \A i \in 1..Len(s) :
         s[i] = t[i] \/ {s[i], t[i]} = {"a", "A"} \/ {s[i], t[i]} = {"b", "B"}

\* the identifier asked for, trimmed
Asked == Strip(OrEmpty(last.identifier))

\* the places of the feed whose identifier is the one asked for: the icao24
\* as stored, or the callsign trimmed
Matching ==
    {i \in 1..Len(FeedRows) :
        IF last.op = "get_latest_state"
          THEN SameButCase(Strip(OrEmpty(FeedRows[i].callsign)), Asked)
          ELSE SameButCase(OrEmpty(FeedRows[i].icao24), Asked)}

\* C4: lookup by identifier compares the trimmed identifier exactly and
\* without regard to case; it returns the record of the first state of the
\* feed that matches, and not-found (None, or 404 "not found" from /track)
\* exactly when no state matches or the identifier is empty.
C4_LookupFirstMatch ==
    last.op \in {"find_by_icao24", "track", "get_latest_state"} =>
        /\ last.found = None <=> (Matching = {} \/ Asked = << >>)
        /\ last.found # None =>
             LET hit == Val(last.found)
                 row == FeedRows[Least(Matching)]
             IN  /\ hit.pos = Least(Matching)
                 /\ hit.icao24 = row.icao24
                 /\ SameButCase(hit.callsign, Strip(OrEmpty(row.callsign)))
                 /\ hit.last_contact =
                      IF last.op = "get_latest_state" THEN ts_to_str(row.last_contact)
                      ELSE row.last_contact
        /\ last.op = "track" =>
             IF last.found = None THEN last.statusCode = 404 /\ last.error = "not found"
             ELSE last.statusCode = 200

\* two states match an identifier written in another case, and one is found
C4_Witness ==
    /\ last.op \in {"find_by_icao24", "track", "get_latest_state"}
    /\ Cardinality(Matching) >= 2
    /\ last.found # None
    /\ \A i \in Matching : OrEmpty(FeedRows[i].icao24) # Asked

\* the last_contact of the row an entry was built from
LastContactOf(e) == FeedRows[e.pos].last_contact

Listing == last.op \in {"select_candidates", "get_plane_list", "to_plane_list", "planes"}

\* C5: the candidate list is in descending order of last_contact, and records
\* with the same last_contact are in the order of the feed.
C5_RecentFirstStable ==
    Listing =>
        \A i, j \in 1..Len(last.rows) :
            (i < j /\ LastContactOf(last.rows[i]) # None /\ LastContactOf(last.rows[j]) # None) =>
                LET a == Val(LastContactOf(last.rows[i]))
                    b == Val(LastContactOf(last.rows[j]))
                IN  a > b \/ (a = b /\ last.rows[i].pos < last.rows[j].pos)

\* the number of rows of the feed with a callsign that is not blank
WithCallsignCount ==
    Cardinality({i \in 1..Len(FeedRows) : ~IsBlank(OrEmpty(FeedRows[i].callsign))})

Smaller(a, b) == IF a < b THEN a ELSE b

\* the callsign of a record listed (a row of the frame keeps it in callsign_norm)
CallsignOf(e) == IF last.op = "select_candidates" THEN e.callsign_norm ELSE e.callsign

\* C6: candidate selection returns no record with a blank callsign, and
\* exactly min(maxCount, N) records, N the number of rows of the feed with a
\* callsign that is not blank; /planes reports the length of its list.
C6_CallsignsAndCount ==
    Listing =>
        /\ \A i \in 1..Len(last.rows) : ~IsBlank(CallsignOf(last.rows[i]))
        /\ Len(last.rows) = Smaller(last.max_count, WithCallsignCount)
        /\ last.op = "planes" => last.statusCode = 200 /\ last.count = Len(last.rows)

=============================================================================
